---- MODULE Spec2Model ----
(***************************************************************************)
(* Model of the sourcing assistant (src/app.py): the catalog store, the    *)
(* category resolver and supplier finder (find_distributors), and the      *)
(* three AI content operations with their fallbacks (get_product_ideas,    *)
(* verify_legitimacy, generate_outreach_email).                            *)
(*                                                                         *)
(* Python strings are sequences of one-character strings, so that          *)
(* substring containment, find/rfind, slicing, lower() and f-string        *)
(* formatting are computed as the code computes them.                      *)
(***************************************************************************)
EXTENDS Integers, Sequences, FiniteSets, TLC

VARIABLES
  DISTRIBUTORS,     \* module-level catalog, result of load_distributors()
  pc,               \* "idle" (script waiting for an interaction) or "returned"
  call,             \* the operation called last and its arguments
  dist_categories,  \* find_distributors: the local list of resolved keys
  parsed,           \* AI operations: what was handed to json.loads, if anything
  ret               \* the outcome of the call: a returned value or a raised exception

vars == <<DISTRIBUTORS, pc, call, dist_categories, parsed, ret>>

----------------------------------------------------------------------------
(* Bounds of the model.                                                    *)

\* longest supplier list of one catalog key in the catalog files explored
MaxSuppliers == 5
\* number of word fragments a category text is concatenated from
MaxWords == 2
\* number of fragments a response text of the external service is concatenated from
MaxParts == 3
\* largest number of legitimacy signals of a supplier handed to verify_legitimacy
MaxSignals == 6

----------------------------------------------------------------------------
(* Python strings and sequences.                                           *)

UpperChars == <<"A","B","C","D","E","F","G","H","I","J","K","L","M",
                "N","O","P","Q","R","S","T","U","V","W","X","Y","Z">>
LowerChars == <<"a","b","c","d","e","f","g","h","i","j","k","l","m",
                "n","o","p","q","r","s","t","u","v","w","x","y","z">>

\* the lower-case letter of each upper-case letter
ToLower ==
  [c \in {UpperChars[i] : i \in 1..Len(UpperChars)} |->
     LowerChars[CHOOSE i \in 1..Len(UpperChars) : UpperChars[i] = c]]

\* str.lower() on one character
LowerChar(c) == IF c \in DOMAIN ToLower THEN ToLower[c] ELSE c

\* str.lower()
lower(s) == [i \in 1..Len(s) |-> LowerChar(s[i])]

\* Python's "sub in s" for strings
Contains(sub, s) ==
  \E i \in 0..(Len(s) - Len(sub)) : SubSeq(s, i + 1, i + Len(sub)) = sub

\* Python's seq[:n] for n >= 0
Prefix(s, n) == SubSeq(s, 1, IF n < Len(s) THEN n ELSE Len(s))

RECURSIVE Flatten(_)
\* concatenation of a sequence of sequences
Flatten(ss) == IF ss = <<>> THEN <<>> ELSE Head(ss) \o Flatten(Tail(ss))

Range(s) == {s[i] : i \in 1..Len(s)}

----------------------------------------------------------------------------
(* Outcomes of a call: a returned value or a raised exception.             *)

NoCall == [op |-> "none"]
NoParse == [attempted |-> FALSE, text |-> <<>>]
NoRet == [raised |-> FALSE, exc |-> "", value |-> <<>>]
Returned(v) == [raised |-> FALSE, exc |-> "", value |-> v]
Raised(e) == [raised |-> TRUE, exc |-> e, value |-> <<>>]

----------------------------------------------------------------------------
(* Catalog store.                                                          *)

\* A Python dict loaded from JSON: its keys in file order, and its items.
EmptyDict == [order |-> <<>>, data |-> <<>>]
Keys(d) == d.order
HasKey(d, k) == k \in Range(d.order)

\* the catalog keys that occur in the catalog files explored, in file order
KeyOrder == <<"pet_products", "electronics", "home_garden">>

KeyInitial(k) ==
  CASE k = "pet_products" -> <<"P">>
    [] k = "electronics" -> <<"E">>
    [] OTHER -> <<"G">>

Digit(n) == <<"0","1","2","3","4","5","6","7","8","9">>[n + 1]

RECURSIVE Decimal(_)
\* str(n) for n >= 0, as the f-strings format an integer
Decimal(n) == IF n < 10 THEN <<Digit(n)>> ELSE Decimal(n \div 10) \o <<Digit(n % 10)>>

\* the legitimacy_signals list of a supplier with n signals
Signals(n) == [j \in 1..n |-> <<"s">> \o Decimal(j)]

\* a supplier record (a dict) with n legitimacy signals
SupplierRecord(name, n) ==
  [name |-> name, location |-> <<"U","S">>, website |-> <<"w">>,
   legitimacy_signals |-> Signals(n)]

\* the i-th supplier record listed under key k of a catalog file
SupplierEntry(k, i) == SupplierRecord(KeyInitial(k) \o Decimal(i), i - 1)

\* File contents: each key of KeyOrder is absent (-1) or lists 0..MaxSuppliers suppliers.
CatalogContent(lens) ==
  LET present == {i \in 1..Len(KeyOrder) : lens[KeyOrder[i]] >= 0}
      RECURSIVE Pick(_)
      Pick(i) == IF i > Len(KeyOrder) THEN <<>>
                 ELSE (IF i \in present THEN <<KeyOrder[i]>> ELSE <<>>) \o Pick(i + 1)
      order == Pick(1)
  IN [order |-> order,
      data |-> [k \in Range(order) |-> [i \in 1..lens[k] |-> SupplierEntry(k, i)]]]

CatalogFiles ==
  {[status |-> "missing", content |-> EmptyDict],
   [status |-> "malformed", content |-> EmptyDict]}
  \cup {[status |-> "ok", content |-> CatalogContent(lens)] :
          lens \in [Range(KeyOrder) -> (-1)..MaxSuppliers]}

\* load_distributors(): the parsed file, or {} on any failure
load_distributors(file) ==
  IF file.status = "ok" THEN file.content ELSE EmptyDict

----------------------------------------------------------------------------
(* Category resolver and supplier finder.                                  *)

\* CATEGORY_MAP, in declaration (= iteration) order
CATEGORY_MAP ==
  << [key |-> <<"p","e","t">>,         cats |-> <<"pet_products">>],
     [key |-> <<"e","l","e","c","t","r","o","n","i","c","s">>, cats |-> <<"electronics">>],
     [key |-> <<"p","h","o","n","e">>,       cats |-> <<"electronics">>],
     [key |-> <<"w","i","r","e","l","e","s","s">>,    cats |-> <<"electronics">>],
     [key |-> <<"h","e","a","l","t","h">>,      cats |-> <<"health_wellness">>],
     [key |-> <<"v","i","t","a","m","i","n">>,     cats |-> <<"health_wellness">>],
     [key |-> <<"s","u","p","p","l","e","m","e","n","t">>,  cats |-> <<"health_wellness">>] >>

\* KeywordMatches with a plausible fault: the text is not lower-cased before the test
KeywordMatchesCaseSensitive(key, category) == Contains(lower(key), category)

\* the test of one CATEGORY_MAP row: key.lower() in category.lower()
KeywordMatches(key, category) == Contains(lower(key), lower(category))

RECURSIVE MatchFrom(_, _)
\* the loop over CATEGORY_MAP.items(): extend dist_categories by the cats of each matching row
MatchFrom(i, category) ==
  IF i > Len(CATEGORY_MAP) THEN <<>>
  ELSE (IF KeywordMatches(CATEGORY_MAP[i].key, category)
        THEN CATEGORY_MAP[i].cats ELSE <<>>) \o MatchFrom(i + 1, category)

\* ResolveCategories with a plausible fault: the fallback is not guarded by "if not dist_categories"
ResolveCategoriesUnguarded(category, catalog) ==
  MatchFrom(1, category) \o Keys(catalog)

\* dist_categories after the "if not dist_categories" fallback
ResolveCategories(category, catalog) ==
  LET matched == MatchFrom(1, category)
  IN IF matched = <<>> THEN Keys(catalog) ELSE matched

RECURSIVE CollectFrom(_, _)
\* the loop over dist_categories: extend found by the suppliers of each key in the catalog
CollectFrom(cats, catalog) ==
  IF cats = <<>> THEN <<>>
  ELSE (IF HasKey(catalog, Head(cats)) THEN catalog.data[Head(cats)] ELSE <<>>)
       \o CollectFrom(Tail(cats), catalog)

\* the supplier cap of the return statement
MaxResults == 4

\* Truncate with a plausible fault: the slice keeps one supplier too many
TruncateOffByOne(found) == IF found # <<>> THEN Prefix(found, MaxResults + 1) ELSE <<>>

\* found[:4] if found else []
Truncate(found) == IF found # <<>> THEN Prefix(found, MaxResults) ELSE <<>>

\* find_distributors: its local dist_categories and the list it returns
find_distributors(category, product_name, catalog) ==
  LET cats == ResolveCategories(category, catalog)
  IN [dist_categories |-> cats, result |-> Truncate(CollectFrom(cats, catalog))]

----------------------------------------------------------------------------
(* Python values built by the AI operations or parsed from JSON text.      *)
(* A dict value is a function from its keys (strings) to values.           *)

PyInt(n) == [t |-> "int", v |-> n]
PyStr(s) == [t |-> "str", v |-> s]
PyConst(c) == [t |-> "const", v |-> c]
PyList(xs) == [t |-> "list", v |-> xs]
PyDict(f) == [t |-> "dict", v |-> f]

\* d[k] = x on a dict under construction; a repeated key keeps the last value
DictSet(f, k, x) == [y \in (DOMAIN f) \cup {k} |-> IF y = k THEN x ELSE f[y]]

\* str.find(c) for a one-character c: 0-based index of the first occurrence, or -1
find(s, c) ==
  IF \E i \in 1..Len(s) : s[i] = c
  THEN (CHOOSE i \in 1..Len(s) : s[i] = c /\ \A j \in 1..(i - 1) : s[j] # c) - 1
  ELSE -1

\* rfind with a plausible fault: the first occurrence is taken instead of the last
rfindFirst(s, c) == find(s, c)

\* str.rfind(c) for a one-character c: 0-based index of the last occurrence, or -1
rfind(s, c) ==
  IF \E i \in 1..Len(s) : s[i] = c
  THEN (CHOOSE i \in 1..Len(s) : s[i] = c /\ \A j \in (i + 1)..Len(s) : s[j] # c) - 1
  ELSE -1

\* Python's s[start:end] for 0 <= start <= end <= len(s)
Slice(s, start, end) == SubSeq(s, start + 1, end)

Whitespace == {" ", "\n", "\t", "\r"}

RECURSIVE StripLeft(_)
StripLeft(s) == IF s # <<>> /\ Head(s) \in Whitespace THEN StripLeft(Tail(s)) ELSE s

RECURSIVE StripRight(_)
StripRight(s) ==
  IF s # <<>> /\ s[Len(s)] \in Whitespace THEN StripRight(SubSeq(s, 1, Len(s) - 1)) ELSE s

\* str.strip()
strip(s) == StripRight(StripLeft(s))

RECURSIVE Join(_, _)
\* sep.join(parts)
Join(sep, parts) ==
  IF parts = <<>> THEN <<>>
  ELSE IF Len(parts) = 1 THEN parts[1]
  ELSE parts[1] \o sep \o Join(sep, Tail(parts))

----------------------------------------------------------------------------
(* json.loads on the texts explored: objects, arrays, strings without      *)
(* escapes, integers, and the literals true, false and null.               *)

ParseFail == [ok |-> FALSE, val |-> <<>>, pos |-> 0]
ParseOk(v, p) == [ok |-> TRUE, val |-> v, pos |-> p]

DigitChars == {"0","1","2","3","4","5","6","7","8","9"}
DigitValue(c) == CHOOSE n \in 0..9 : Digit(n) = c

RECURSIVE SkipWs(_, _)
\* the first position at or after i that holds no whitespace
SkipWs(s, i) == IF i <= Len(s) /\ s[i] \in Whitespace THEN SkipWs(s, i + 1) ELSE i

\* whether the characters of lit stand at position i of s
MatchAt(s, i, lit) ==
  i + Len(lit) - 1 <= Len(s) /\ SubSeq(s, i, i + Len(lit) - 1) = lit

RECURSIVE StringEnd(_, _)
\* the position of the quote closing a string whose content starts at i, or 0
StringEnd(s, i) ==
  IF i > Len(s) \/ s[i] \in {"\n", "\\"} THEN 0
  ELSE IF s[i] = "\"" THEN i
  ELSE StringEnd(s, i + 1)

\* a string literal at position i (s[i] is the opening quote)
ParseString(s, i) ==
  LET e == StringEnd(s, i + 1)
  IN IF e = 0 THEN ParseFail ELSE ParseOk(PyStr(SubSeq(s, i + 1, e - 1)), e + 1)

RECURSIVE DigitsEnd(_, _)
\* the first position at or after i that holds no digit
DigitsEnd(s, i) == IF i <= Len(s) /\ s[i] \in DigitChars THEN DigitsEnd(s, i + 1) ELSE i

RECURSIVE DigitsValue(_)
DigitsValue(ds) ==
  IF ds = <<>> THEN 0
  ELSE 10 * DigitsValue(SubSeq(ds, 1, Len(ds) - 1)) + DigitValue(ds[Len(ds)])

\* an integer at position i: -?(0|[1-9][0-9]*)
ParseNumber(s, i) ==
  LET neg == s[i] = "-"
      b == IF neg THEN i + 1 ELSE i
      e == IF b <= Len(s) /\ s[b] = "0" THEN b + 1 ELSE DigitsEnd(s, b)
      n == DigitsValue(SubSeq(s, b, e - 1))
  IN IF e = b THEN ParseFail ELSE ParseOk(PyInt(IF neg THEN 0 - n ELSE n), e)

RECURSIVE ParseValue(_, _)
RECURSIVE ParseElements(_, _, _)
RECURSIVE ParseMembers(_, _, _)

\* the elements of an array from position i on, up to its closing bracket
ParseElements(s, i, acc) ==
  LET v == ParseValue(s, i)
      j == SkipWs(s, v.pos)
  IN IF ~v.ok \/ j > Len(s) THEN ParseFail
     ELSE IF s[j] = "," THEN ParseElements(s, SkipWs(s, j + 1), Append(acc, v.val))
     ELSE IF s[j] = "]" THEN ParseOk(PyList(Append(acc, v.val)), j + 1)
     ELSE ParseFail

\* the members of an object from position i on, up to its closing brace
ParseMembers(s, i, acc) ==
  IF i > Len(s) \/ s[i] # "\"" THEN ParseFail
  ELSE
    LET k == ParseString(s, i)
        c == SkipWs(s, k.pos)
        v == ParseValue(s, SkipWs(s, c + 1))
        j == SkipWs(s, v.pos)
    IN IF ~k.ok \/ c > Len(s) \/ s[c] # ":" THEN ParseFail
       ELSE IF ~v.ok \/ j > Len(s) THEN ParseFail
       ELSE IF s[j] = ","
            THEN ParseMembers(s, SkipWs(s, j + 1), DictSet(acc, k.val.v, v.val))
       ELSE IF s[j] = "}" THEN ParseOk(PyDict(DictSet(acc, k.val.v, v.val)), j + 1)
       ELSE ParseFail

\* one JSON value at position i (no whitespace at i)
ParseValue(s, i) ==
  IF i > Len(s) THEN ParseFail
  ELSE IF s[i] = "\"" THEN ParseString(s, i)
  ELSE IF s[i] = "[" THEN
    (LET j == SkipWs(s, i + 1)
     IN IF j <= Len(s) /\ s[j] = "]" THEN ParseOk(PyList(<<>>), j + 1)
        ELSE ParseElements(s, j, <<>>))
  ELSE IF s[i] = "{" THEN
    (LET j == SkipWs(s, i + 1)
     IN IF j <= Len(s) /\ s[j] = "}" THEN ParseOk(PyDict(<<>>), j + 1)
        ELSE ParseMembers(s, j, <<>>))
  ELSE IF s[i] = "-" \/ s[i] \in DigitChars THEN ParseNumber(s, i)
  ELSE IF MatchAt(s, i, <<"t","r","u","e">>) THEN ParseOk(PyConst("true"), i + 4)
  ELSE IF MatchAt(s, i, <<"f","a","l","s","e">>) THEN ParseOk(PyConst("false"), i + 5)
  ELSE IF MatchAt(s, i, <<"n","u","l","l">>) THEN ParseOk(PyConst("null"), i + 4)
  ELSE ParseFail

\* json.loads(s): the value, or JSONDecodeError for text that is no single JSON value
json_loads(s) ==
  LET v == ParseValue(s, SkipWs(s, 1))
  IN IF v.ok /\ SkipWs(s, v.pos) = Len(s) + 1 THEN Returned(v.val)
     ELSE Raised("JSONDecodeError")

----------------------------------------------------------------------------
(* AI content generator: the shared shape of the three operations.         *)

\* dict.get(k, default)
Get(d, k, default) == IF k \in DOMAIN d THEN d[k] ELSE default

\* CaughtByExcept with a plausible fault: the handler catches the service's errors only
CaughtOnlyServiceError(e) == e = "APIError"

\* "except Exception": every exception class raised in the try blocks derives from Exception
CaughtByExcept(e) ==
  e \in {"APIError", "IndexError", "ValueError", "JSONDecodeError", "KeyError", "TypeError"}

\* the JSON extraction of a response text: first open to last close, parsed
ExtractJson(content, open, close) ==
  LET start == find(content, open)
      end == rfind(content, close) + 1
  IN IF start # -1 /\ end > start
     THEN [parsed |-> [attempted |-> TRUE, text |-> Slice(content, start, end)],
           ret |-> json_loads(Slice(content, start, end))]
     ELSE [parsed |-> NoParse, ret |-> Raised("ValueError")]

\* client.messages.create(...) followed by response.content[0].text
ResponseText(outcome) ==
  IF outcome.kind = "raise" THEN Raised("APIError")
  ELSE IF outcome.kind = "no_content" THEN Raised("IndexError")
  ELSE Returned(outcome.text)

\* the try block of get_product_ideas and of verify_legitimacy
TryExtract(outcome, open, close) ==
  LET content == ResponseText(outcome)
  IN IF content.raised THEN [parsed |-> NoParse, ret |-> content]
     ELSE ExtractJson(content.value, open, close)

----------------------------------------------------------------------------
(* get_product_ideas and its fallback list.                                *)

\* ProductName with a plausible fault: the entry is numbered i instead of i + 1
ProductNameZeroBased(category, i) ==
  <<"P","o","p","u","l","a","r"," ">> \o category \o <<" ","P","r","o","d","u","c","t"," ">> \o Decimal(i)

\* f"Popular {category} Product {i+1}"
ProductName(category, i) ==
  <<"P","o","p","u","l","a","r"," ">> \o category \o <<" ","P","r","o","d","u","c","t"," ">> \o Decimal(i + 1)

\* entry i of the fallback list
FallbackProduct(category, i) ==
  PyDict(<<"n","a","m","e">> :> PyStr(ProductName(category, i))
      @@ <<"d","e","s","c","r","i","p","t","i","o","n">> :>
           PyStr(<<"H","i","g","h","-","d","e","m","a","n","d"," ">> \o category \o <<" ","i","t","e","m"," ","w","i","t","h"," ","p","r","o","v","e","n"," ","s","a","l","e","s">>)
      @@ <<"p","r","i","c","e">> :>
           PyStr(<<"$">> \o Decimal(20 + i * 10) \o <<"-">> \o Decimal(30 + i * 10))
      @@ <<"p","r","o","f","i","t","_","s","c","o","r","e">> :> PyInt(70 + i * 5)
      @@ <<"d","e","m","a","n","d">> :> PyStr(<<"H","i","g","h">>))

\* the list comprehension over range(count)
FallbackProducts(category, count) ==
  PyList([j \in 1..count |-> FallbackProduct(category, j - 1)])

get_product_ideas(category, count, outcome) ==
  LET body == TryExtract(outcome, "[", "]")
  IN [parsed |-> body.parsed,
      ret |-> IF body.ret.raised /\ CaughtByExcept(body.ret.exc)
              THEN Returned(FallbackProducts(category, count))
              ELSE body.ret]

----------------------------------------------------------------------------
(* verify_legitimacy and its fallback verdict.                             *)

Min(a, b) == IF a < b THEN a ELSE b

\* FallbackRisk with a plausible fault: the threshold is inclusive
FallbackRiskInclusive(score) == IF score >= 70 THEN <<"L","o","w">> ELSE <<"M","e","d","i","u","m">>

\* "Low" if score > 70 else "Medium", on the score before the clamp
FallbackRisk(score) == IF score > 70 THEN <<"L","o","w">> ELSE <<"M","e","d","i","u","m">>

\* the fallback verdict of the except branch
FallbackVerdict(distributor) ==
  LET signals == Get(distributor, "legitimacy_signals", <<>>)
      score == 50 + Len(signals) * 10
  IN PyDict(<<"s","c","o","r","e">> :> PyInt(Min(score, 95))
         @@ <<"r","e","a","s","o","n","i","n","g">> :>
              PyStr(<<"D","i","s","t","r","i","b","u","t","o","r"," ","h","a","s"," ">> \o Decimal(Len(signals))
                    \o <<" ","v","e","r","i","f","i","c","a","t","i","o","n"," ","s","i","g","n","a","l","s"," ","i","n","c","l","u","d","i","n","g"," ">>
                    \o Join(<<","," ">>, Prefix(signals, 2)) \o <<".">>)
         @@ <<"r","i","s","k">> :> PyStr(FallbackRisk(score)))

\* the keys the prompt f-string of verify_legitimacy indexes
VerifyPromptKeys == {"name", "location", "website"}

verify_legitimacy(distributor, outcome) ==
  IF ~(VerifyPromptKeys \subseteq DOMAIN distributor)
  THEN [parsed |-> NoParse, ret |-> Raised("KeyError")]
  ELSE
    LET body == TryExtract(outcome, "{", "}")
    IN [parsed |-> body.parsed,
        ret |-> IF body.ret.raised /\ CaughtByExcept(body.ret.exc)
                THEN Returned(FallbackVerdict(distributor))
                ELSE body.ret]

----------------------------------------------------------------------------
(* generate_outreach_email and its static template.                        *)

\* the templated email of the except branch
StaticEmail(product, distributor, user_info) ==
  <<"H","e","l","l","o"," ">> \o distributor["name"] \o <<" ","T","e","a","m",",","\n","\n","I","'","m"," ","r","e","a","c","h","i","n","g"," ","o","u","t"," ","f","r","o","m"," ">>
  \o Get(user_info, "business_name", <<"m","y"," ","e","-","c","o","m","m","e","r","c","e"," ","b","u","s","i","n","e","s","s">>)
  \o <<" ","r","e","g","a","r","d","i","n","g"," ","w","h","o","l","e","s","a","l","e"," ","s","o","u","r","c","i","n","g"," ","f","o","r"," ">> \o product["name"]
  \o <<".","\n","\n","W","e","'","r","e"," ","c","u","r","r","e","n","t","l","y"," ","s","c","a","l","i","n","g"," ","o","u","r"," ","o","p","e","r","a","t","i","o","n","s"," ","a","n","d"," ","l","o","o","k","i","n","g"," ","f","o","r"," ","r","e","l","i","a","b","l","e"," ","s","u","p","p","l","i","e","r","s"," ","w","h","o"," ","c","a","n"," ","p","r","o","v","i","d","e",":","\n","-"," ","C","o","m","p","e","t","i","t","i","v","e"," ","w","h","o","l","e","s","a","l","e"," ","p","r","i","c","i","n","g","\n","-"," ","F","l","e","x","i","b","l","e"," ","M","O","Q"," ","o","p","t","i","o","n","s","\n","-"," ","S","h","i","p","p","i","n","g"," ","t","o"," ","o","u","r"," ","p","r","e","p"," ","c","e","n","t","e","r","/","3","P","L"," ","f","a","c","i","l","i","t","y","\n","-"," ","C","o","n","s","i","s","t","e","n","t"," ","i","n","v","e","n","t","o","r","y"," ","a","v","a","i","l","a","b","i","l","i","t","y","\n","\n","C","o","u","l","d"," ","y","o","u"," ","p","l","e","a","s","e"," ","s","h","a","r","e"," ","y","o","u","r"," ","c","u","r","r","e","n","t"," ","p","r","i","c","i","n","g"," ","a","n","d"," ","t","e","r","m","s"," ","f","o","r"," ","t","h","i","s"," ","p","r","o","d","u","c","t","?","\n","\n","B","e","s","t"," ","r","e","g","a","r","d","s",",","\n">>
  \o Get(user_info, "name", <<"B","u","s","i","n","e","s","s"," ","O","w","n","e","r">>)

\* whether the prompt f-string of generate_outreach_email finds the keys it indexes
EmailPromptRenders(product, distributor) ==
  "name" \in DOMAIN product /\ {"name", "location"} \subseteq DOMAIN distributor

generate_outreach_email(product, distributor, user_info, outcome) ==
  IF ~EmailPromptRenders(product, distributor)
  THEN [parsed |-> NoParse, ret |-> Raised("KeyError")]
  ELSE
    LET content == ResponseText(outcome)
    IN [parsed |-> NoParse,
        ret |-> IF content.raised /\ CaughtByExcept(content.exc)
                THEN Returned(PyStr(StaticEmail(product, distributor, user_info)))
                ELSE IF content.raised THEN content
                ELSE Returned(PyStr(strip(content.value)))]

----------------------------------------------------------------------------
(* Inputs.                                                                 *)

CategoryWords ==
  { <<"p","e","t">>, <<"P","H","O","N","E">>, <<"w","i","r","e","l","e","s","s">>, <<"e","l","e","c","t","r","o","n","i","c","s">>, <<"v","i","t","a","m","i","n">>,
    <<" ","e","a","r","b","u","d","s">>, <<"c","a","r">> }

\* category texts: concatenations of at most MaxWords words
CategoryTexts ==
  UNION {{Flatten(ws) : ws \in [1..n -> CategoryWords]} : n \in 0..MaxWords}

ProductNames == { <<"X">> }

\* the range of the "Number of Products" input
MinProducts == 3
MaxProducts == 10

\* category texts handed to get_product_ideas (the empty text is rejected before the call)
IdeaCategories == { <<"p","e","t"," ","t","o","y","s">>, <<"w","i","r","e","l","e","s","s"," ","e","a","r","b","u","d","s">> }

\* fragments of the external service's response texts
ResponseParts ==
  { <<"H","e","r","e",":"," ">>, <<"[">>, <<"]">>, <<"{">>, <<"}">>,
    <<"{","\"","s","c","o","r","e","\"",":"," ","8","5",","," ","\"","r","i","s","k","\"",":"," ","\"","L","o","w","\"","}">>,
    <<"{","\"","s","c","o","r","e","\"",":"," ","1","5","0",","," ","\"","r","i","s","k","\"",":"," ","\"","E","x","t","r","e","m","e","\"","}">>,
    <<"{","\"","n","a","m","e","\"",":"," ","\"","X","\"",","," ","\"","p","r","o","f","i","t","_","s","c","o","r","e","\"",":"," ","1","2","0","}">> }

\* response texts: concatenations of at most MaxParts fragments
ResponseTexts ==
  UNION {{Flatten(ps) : ps \in [1..n -> ResponseParts]} : n \in 0..MaxParts}

\* what the external service call does: raise, answer without a content block, answer a text
Outcomes ==
  {[kind |-> "raise", text |-> <<>>], [kind |-> "no_content", text |-> <<>>]}
  \cup {[kind |-> "text", text |-> t] : t \in ResponseTexts}

\* supplier dicts handed to verify_legitimacy: 0..MaxSignals signals, no
\* legitimacy_signals field, no name field
Distributors ==
  {SupplierRecord(<<"D">>, n) : n \in 0..MaxSignals}
  \cup {[name |-> <<"D">>, location |-> <<"U","S">>, website |-> <<"w">>],
        [location |-> <<"U","S">>, website |-> <<"w">>]}

\* arguments of generate_outreach_email
EmailProducts == {[name |-> <<"X">>], [description |-> <<"d">>]}
EmailDistributors == {SupplierRecord(<<"D">>, 1), [location |-> <<"U","S">>, website |-> <<"w">>]}
UserInfos ==
  {[name |-> <<"A","l","e","x">>, business_name |-> <<"P","r","i","m","e">>, monthly_volume |-> <<"5","0","0">>,
    state |-> <<"C","A">>],
   [state |-> <<"C","A">>]}


----------------------------------------------------------------------------
(* The catalog-lookup program.                                             *)

Init ==
  /\ \E file \in CatalogFiles : DISTRIBUTORS = load_distributors(file)
  /\ pc = "idle"
  /\ call = NoCall
  /\ dist_categories = <<>>
  /\ parsed = NoParse
  /\ ret = NoRet

\* one call of find_distributors(category, product_name)
FindDistributors ==
  /\ pc = "idle"
  /\ \E category \in CategoryTexts, product_name \in ProductNames :
       LET r == find_distributors(category, product_name, DISTRIBUTORS)
       IN /\ call' = [op |-> "find_distributors", category |-> category,
                      product_name |-> product_name]
          /\ dist_categories' = r.dist_categories
          /\ ret' = Returned(r.result)
  /\ pc' = "returned"
  /\ UNCHANGED <<DISTRIBUTORS, parsed>>

\* the caller has consumed the result; the script waits for the next interaction
Rerun ==
  /\ pc = "returned"
  /\ pc' = "idle"
  /\ call' = NoCall
  /\ dist_categories' = <<>>
  /\ parsed' = NoParse
  /\ ret' = NoRet
  /\ UNCHANGED DISTRIBUTORS

Next == FindDistributors \/ Rerun

Spec == Init /\ [][Next]_vars

----------------------------------------------------------------------------
(* The AI content generator program.                                       *)

SampleFile ==
  [status |-> "ok", content |-> CatalogContent([k \in Range(KeyOrder) |-> 2])]

InitAI ==
  /\ DISTRIBUTORS = load_distributors(SampleFile)
  /\ pc = "idle"
  /\ call = NoCall
  /\ dist_categories = <<>>
  /\ parsed = NoParse
  /\ ret = NoRet

\* one call of get_product_ideas(category, count)
GetProductIdeas ==
  /\ pc = "idle"
  /\ \E category \in IdeaCategories, count \in MinProducts..MaxProducts,
        outcome \in Outcomes :
       LET r == get_product_ideas(category, count, outcome)
       IN /\ call' = [op |-> "get_product_ideas", category |-> category,
                      count |-> count, outcome |-> outcome]
          /\ parsed' = r.parsed
          /\ ret' = r.ret
  /\ pc' = "returned"
  /\ UNCHANGED <<DISTRIBUTORS, dist_categories>>

\* one call of verify_legitimacy(distributor)
VerifyLegitimacy ==
  /\ pc = "idle"
  /\ \E distributor \in Distributors, outcome \in Outcomes :
       LET r == verify_legitimacy(distributor, outcome)
       IN /\ call' = [op |-> "verify_legitimacy", distributor |-> distributor,
                      outcome |-> outcome]
          /\ parsed' = r.parsed
          /\ ret' = r.ret
  /\ pc' = "returned"
  /\ UNCHANGED <<DISTRIBUTORS, dist_categories>>

\* one call of generate_outreach_email(product, distributor, user_info)
GenerateOutreachEmail ==
  /\ pc = "idle"
  /\ \E product \in EmailProducts, distributor \in EmailDistributors,
        user_info \in UserInfos, outcome \in Outcomes :
       LET r == generate_outreach_email(product, distributor, user_info, outcome)
       IN /\ call' = [op |-> "generate_outreach_email", product |-> product,
                      distributor |-> distributor, user_info |-> user_info,
                      outcome |-> outcome]
          /\ parsed' = r.parsed
          /\ ret' = r.ret
  /\ pc' = "returned"
  /\ UNCHANGED <<DISTRIBUTORS, dist_categories>>

NextAI == GetProductIdeas \/ VerifyLegitimacy \/ GenerateOutreachEmail \/ Rerun

SpecAI == InitAI /\ [][NextAI]_vars

----------------------------------------------------------------------------
(* Properties of the category resolver and the supplier finder.            *)

FindReturned == pc = "returned" /\ call.op = "find_distributors"

\* case-insensitive occurrence of kw in text, stated position by position
OccursIgnoringCase(kw, text) ==
  \E i \in 1..Len(text) :
    /\ i + Len(kw) - 1 <= Len(text)
    /\ \A j \in 1..Len(kw) : LowerChar(text[i + j - 1]) = LowerChar(kw[j])

\* the rows of CATEGORY_MAP whose keyword the text contains
MatchedRows(text) ==
  {i \in 1..Len(CATEGORY_MAP) : OccursIgnoringCase(CATEGORY_MAP[i].key, text)}

\* C1: find_distributors returns at most 4 suppliers, and returns the empty
\* list whenever none of the resolved keys is a key of the catalog (also with
\* the empty catalog of a failed load).
C1_AtMostFour ==
  FindReturned =>
    /\ ~ret.raised
    /\ Len(ret.value) <= 4
    /\ ((\A k \in Range(dist_categories) : ~HasKey(DISTRIBUTORS, k)) => ret.value = <<>>)

\* C1 witness: a resolved key lists more than 4 suppliers and 4 are returned
C1_Witness ==
  /\ FindReturned
  /\ \E k \in Range(dist_categories) :
       HasKey(DISTRIBUTORS, k) /\ Len(DISTRIBUTORS.data[k]) > 4
  /\ Len(ret.value) = 4

\* C2: the set of resolved keys is the union of the target keys of the
\* keywords the text contains (case-insensitively) when there is one, and
\* otherwise the set of all catalog keys; it is non-empty when the catalog is.
C2_ResolvedKeys ==
  FindReturned =>
    LET rows == MatchedRows(call.category)
    IN /\ Range(dist_categories) =
            IF rows # {} THEN UNION {Range(CATEGORY_MAP[i].cats) : i \in rows}
            ELSE Range(Keys(DISTRIBUTORS))
       /\ (Keys(DISTRIBUTORS) # <<>> => dist_categories # <<>>)

\* C2 witness: an upper-case keyword and a second keyword resolve to their two keys
C2_Witness ==
  /\ FindReturned
  /\ call.category = <<"P","H","O","N","E","p","e","t">>
  /\ Range(dist_categories) = {"electronics", "pet_products"}
  /\ Keys(DISTRIBUTORS) # <<>>

\* C8: each catalog key is resolved at most once however many matched
\* keywords map to it, and no catalog supplier entry appears twice in the
\* returned list.
C8_ResolvedOnce ==
  FindReturned =>
    /\ \A i, j \in 1..Len(dist_categories) :
         i # j => dist_categories[i] # dist_categories[j]
    /\ \A i, j \in 1..Len(ret.value) : i # j => ret.value[i] # ret.value[j]

\* C9: a text containing exactly one keyword, whose target key k is in the
\* catalog, yields exactly the first min(4, Len(catalog[k])) suppliers of k,
\* in catalog order.
C9_SingleKeyword ==
  FindReturned =>
    LET rows == MatchedRows(call.category)
    IN \A r \in rows :
         LET k == CATEGORY_MAP[r].cats[1]
         IN (rows = {r} /\ HasKey(DISTRIBUTORS, k)) =>
              LET listed == DISTRIBUTORS.data[k]
              IN /\ Len(ret.value) = (IF Len(listed) < 4 THEN Len(listed) ELSE 4)
                 /\ \A j \in 1..Len(ret.value) : ret.value[j] = listed[j]

\* C9 witness: "wireless earbuds" with 5 electronics suppliers and other keys in the catalog
C9_Witness ==
  /\ FindReturned
  /\ call.category = <<"w","i","r","e","l","e","s","s"," ","e","a","r","b","u","d","s">>
  /\ HasKey(DISTRIBUTORS, "electronics")
  /\ Len(DISTRIBUTORS.data["electronics"]) = 5
  /\ HasKey(DISTRIBUTORS, "pet_products")
  /\ Len(DISTRIBUTORS.data["pet_products"]) > 0
  /\ Len(ret.value) = 4

----------------------------------------------------------------------------
(* Properties of the AI content generator.                                 *)

AIReturned(op) == pc = "returned" /\ call.op = op

\* the external service was called: the prompt of the operation was rendered
ServiceCalled ==
  \/ call.op = "get_product_ideas"
  \/ call.op = "verify_legitimacy" /\ VerifyPromptKeys \subseteq DOMAIN call.distributor
  \/ /\ call.op = "generate_outreach_email"
     /\ "name" \in DOMAIN call.product
     /\ {"name", "location"} \subseteq DOMAIN call.distributor

Positions(text, c) == {i \in 1..Len(text) : text[i] = c}
FirstOf(S) == CHOOSE i \in S : \A j \in S : i <= j
LastOf(S) == CHOOSE i \in S : \A j \in S : j <= i

\* an opening character exists and the last closing one lies after the first opening one
Extractable(text, open, close) ==
  /\ Positions(text, open) # {}
  /\ Positions(text, close) # {}
  /\ LastOf(Positions(text, close)) > FirstOf(Positions(text, open))

\* the text from its first opening character through its last closing one
Extracted(text, open, close) ==
  SubSeq(text, FirstOf(Positions(text, open)), LastOf(Positions(text, close)))

\* the service call failed: it raised or gave no text
CallFailed(outcome) == outcome.kind \in {"raise", "no_content"}

\* the outcomes that yield no parsed JSON: a failed call, a text without JSON,
\* a text whose bracketed part is no valid JSON
NoJsonOutcome(outcome, open, close) ==
  \/ CallFailed(outcome)
  \/ ~Extractable(outcome.text, open, close)
  \/ json_loads(Extracted(outcome.text, open, close)).raised

\* C3: each AI operation returns a value and raises nothing for every outcome
\* of the external service call; on a failed call, a text without JSON or a
\* text with invalid JSON the value is the fallback of the arguments.
C3_NeverRaises ==
  (pc = "returned" /\ ServiceCalled) =>
    /\ ~ret.raised
    /\ (call.op = "get_product_ideas" /\ NoJsonOutcome(call.outcome, "[", "]"))
         => ret.value = FallbackProducts(call.category, call.count)
    /\ (call.op = "verify_legitimacy" /\ NoJsonOutcome(call.outcome, "{", "}"))
         => ret.value = FallbackVerdict(call.distributor)
    /\ (call.op = "generate_outreach_email" /\ CallFailed(call.outcome))
         => ret.value = PyStr(StaticEmail(call.product, call.distributor, call.user_info))

\* C3 witness: verify_legitimacy got a text whose braces enclose invalid JSON
C3_Witness ==
  /\ AIReturned("verify_legitimacy")
  /\ ServiceCalled
  /\ call.outcome.kind = "text"
  /\ Extractable(call.outcome.text, "{", "}")
  /\ json_loads(Extracted(call.outcome.text, "{", "}")).raised
  /\ ~ret.raised
  /\ ret.value = FallbackVerdict(call.distributor)

\* the number of legitimacy signals of a supplier; a missing field counts as 0
SignalCount(distributor) ==
  IF "legitimacy_signals" \in DOMAIN distributor
  THEN Len(distributor["legitimacy_signals"]) ELSE 0

VerdictScore == ret.value.v[<<"s","c","o","r","e">>].v
VerdictRisk == ret.value.v[<<"r","i","s","k">>].v

\* C4: on the fallback path of verify_legitimacy with n signals the score is
\* min(50 + 10n, 95) and the risk is "Low" exactly when the returned score
\* exceeds 70 and "Medium" otherwise; n = 0 gives 50/Medium, n = 2 70/Medium,
\* n = 3 80/Low, n >= 5 95/Low.
C4_FallbackScore ==
  (AIReturned("verify_legitimacy") /\ ServiceCalled
     /\ NoJsonOutcome(call.outcome, "{", "}")) =>
    LET n == SignalCount(call.distributor)
    IN /\ ~ret.raised
       /\ VerdictScore = (IF 50 + 10 * n < 95 THEN 50 + 10 * n ELSE 95)
       /\ (VerdictRisk = <<"L","o","w">> <=> VerdictScore > 70)
       /\ (VerdictRisk = <<"M","e","d","i","u","m">> <=> ~(VerdictScore > 70))
       /\ (n = 0 => VerdictScore = 50 /\ VerdictRisk = <<"M","e","d","i","u","m">>)
       /\ (n = 2 => VerdictScore = 70 /\ VerdictRisk = <<"M","e","d","i","u","m">>)
       /\ (n = 3 => VerdictScore = 80 /\ VerdictRisk = <<"L","o","w">>)
       /\ (n >= 5 => VerdictScore = 95 /\ VerdictRisk = <<"L","o","w">>)

\* C4 witness: a supplier with 6 signals gets the clamped score 95 on a failed call
C4_Witness ==
  /\ AIReturned("verify_legitimacy")
  /\ ServiceCalled
  /\ call.outcome.kind = "raise"
  /\ SignalCount(call.distributor) = 6
  /\ VerdictScore = 95
  /\ VerdictRisk = <<"L","o","w">>

\* C5: the fallback list of get_product_ideas(category, count) has exactly
\* count entries; entry i is named "Popular <category> Product <i+1>", has
\* profit_score 70 + 5i and demand "High", whatever the failure.
C5_FallbackList ==
  (AIReturned("get_product_ideas") /\ NoJsonOutcome(call.outcome, "[", "]")) =>
    /\ ~ret.raised
    /\ ret.value.t = "list"
    /\ Len(ret.value.v) = call.count
    /\ \A i \in 0..(call.count - 1) :
         LET e == ret.value.v[i + 1].v
         IN /\ e[<<"n","a","m","e">>] =
                 PyStr(<<"P","o","p","u","l","a","r"," ">> \o call.category \o <<" ","P","r","o","d","u","c","t"," ">> \o Decimal(i + 1))
            /\ e[<<"p","r","o","f","i","t","_","s","c","o","r","e">>] = PyInt(70 + 5 * i)
            /\ e[<<"d","e","m","a","n","d">>] = PyStr(<<"H","i","g","h">>)

\* C5 witness: the fallback list for "pet toys" and count 3 after a text without brackets
C5_Witness ==
  /\ AIReturned("get_product_ideas")
  /\ call.category = <<"p","e","t"," ","t","o","y","s">>
  /\ call.count = 3
  /\ call.outcome.kind = "text"
  /\ Positions(call.outcome.text, "[") = {}
  /\ Len(ret.value.v) = 3
  /\ ret.value.v[1].v[<<"n","a","m","e">>].v = <<"P","o","p","u","l","a","r"," ","p","e","t"," ","t","o","y","s"," ","P","r","o","d","u","c","t"," ","1">>
  /\ ret.value.v[3].v[<<"n","a","m","e">>].v = <<"P","o","p","u","l","a","r"," ","p","e","t"," ","t","o","y","s"," ","P","r","o","d","u","c","t"," ","3">>
  /\ ret.value.v[1].v[<<"p","r","o","f","i","t","_","s","c","o","r","e">>].v = 70
  /\ ret.value.v[2].v[<<"p","r","o","f","i","t","_","s","c","o","r","e">>].v = 75
  /\ ret.value.v[3].v[<<"p","r","o","f","i","t","_","s","c","o","r","e">>].v = 80

\* C6: every verdict verify_legitimacy returns, parsed or fallback, has an
\* integer score in 0..100 and a risk among Low, Medium, High.
C6_VerdictInRange ==
  (AIReturned("verify_legitimacy") /\ ServiceCalled /\ ~ret.raised) =>
    LET d == ret.value.v
    IN /\ <<"s","c","o","r","e">> \in DOMAIN d
       /\ d[<<"s","c","o","r","e">>].t = "int"
       /\ d[<<"s","c","o","r","e">>].v \in 0..100
       /\ <<"r","i","s","k">> \in DOMAIN d
       /\ d[<<"r","i","s","k">>].t = "str"
       /\ d[<<"r","i","s","k">>].v \in { <<"L","o","w">>, <<"M","e","d","i","u","m">>, <<"H","i","g","h">> }

\* C7: every product idea get_product_ideas returns has an integer
\* profit_score in 0..100, for every count from 3 to 10, the entries of the
\* fallback list included.
C7_ProfitScoreInRange ==
  (AIReturned("get_product_ideas") /\ ~ret.raised) =>
    \A i \in 1..Len(ret.value.v) :
      LET e == ret.value.v[i]
      IN (e.t = "dict" /\ <<"p","r","o","f","i","t","_","s","c","o","r","e">> \in DOMAIN e.v) =>
           /\ e.v[<<"p","r","o","f","i","t","_","s","c","o","r","e">>].t = "int"
           /\ e.v[<<"p","r","o","f","i","t","_","s","c","o","r","e">>].v \in 0..100

\* the extraction of a response text by an operation with the given brackets
ExtractionAsClaimed(open, close, fallback) ==
  LET text == call.outcome.text
  IN /\ parsed.attempted <=> Extractable(text, open, close)
     /\ parsed.attempted => parsed.text = Extracted(text, open, close)
     /\ ~parsed.attempted => ret = Returned(fallback)

\* C10: get_product_ideas ([ ]) and verify_legitimacy ({ }) hand the parser
\* exactly the text from the first opening character through the last closing
\* one, only when an opening one exists and the last closing one lies after
\* it; otherwise no parse is attempted and the fallback is returned.
C10_Extraction ==
  /\ (AIReturned("get_product_ideas") /\ call.outcome.kind = "text") =>
       ExtractionAsClaimed("[", "]", FallbackProducts(call.category, call.count))
  /\ (AIReturned("verify_legitimacy") /\ ServiceCalled /\ call.outcome.kind = "text") =>
       ExtractionAsClaimed("{", "}", FallbackVerdict(call.distributor))

\* C10 witness: the prose before the first brace is cut off and the rest, up
\* to the last of two closing braces, is handed to the parser
C10_Witness ==
  /\ AIReturned("verify_legitimacy")
  /\ ServiceCalled
  /\ call.outcome.text = <<"H","e","r","e",":"," ","{","\"","s","c","o","r","e","\"",":"," ","8","5",","," ","\"","r","i","s","k","\"",":"," ","\"","L","o","w","\"","}","}">>
  /\ parsed.attempted
  /\ parsed.text = <<"{","\"","s","c","o","r","e","\"",":"," ","8","5",","," ","\"","r","i","s","k","\"",":"," ","\"","L","o","w","\"","}","}">>

====
